---- MODULE Spec2Model ----
(***************************************************************************)
(* pypdl/utls.py: the segment planner (create_segment_table), the segment  *)
(* and single-stream workers (Basicdown.download, Multidown.worker,        *)
(* Simpledown.worker) and the merge step (combine_files), over one         *)
(* destination path <filepath> with its manifest <filepath>.json and its   *)
(* segment files <filepath>.<i>.bin.                                       *)
(***************************************************************************)
EXTENDS Integers, Sequences, FiniteSets, TLC

\* ---------------------------------------------------------------- constants
MEGABYTE == 1048576
ClampSegments == 5
ClampMegabytes == 50

\* ------------------------------------------------------------------- bounds
MaxSize == 2          \* resource sizes 0..MaxSize (bytes) in Spec
MaxPlanSize == 2      \* small resource sizes 0..MaxPlanSize in SpecPlan
MaxPlanSeg == 2       \* small requested segment counts -1..MaxPlanSeg in SpecPlan
MaxSeg == 2           \* requested segment counts 1..MaxSeg in Spec
MaxRuns == 2          \* downloads started on the destination path
ChunkMax == 1         \* longest chunk one iteration of iter_content yields

\* ------------------------------------------------------------------- inputs
Urls == {"u1", "u2"}
NoEtag == ""                                 \* etag absent (falsy)
Etags == {NoEtag, "e1", "e2"}
\* SpecPlan also plans a 56 MB resource (no clamp; int(size / 7 * 7) = size - 1)
\* and requests 6 and 7 segments
PlanSizes == (0..MaxPlanSize) \cup {58720262}
PlanSegs == ((-1)..MaxPlanSeg) \cup {ClampSegments + 1, ClampSegments + 2}
\* Spec downloads u1, whose server sends an ETag, and u2, whose server sends none
Sources == { [url |-> "u1", etag |-> "e1"], [url |-> "u2", etag |-> NoEtag] }
DlSegs == 1..MaxSeg

VARIABLES
    manifest,   \* <filepath>.json: <<>> when absent, else <<[url, etag, segments]>>
    progress,   \* local `progress` of the last create_segment_table call
    call,       \* arguments of the last create_segment_table call, <<>> before
    table,      \* value returned by the last call: <<>> when none, else <<dic>>
    raised,     \* TRUE when the last call left by an exception
    rsize,      \* length of the remote resources
    rangeOK,    \* TRUE when the server honours the range header
    files,      \* <filepath>.<i>.bin: [ex, data]
    dest,       \* <filepath>: [ex, data]
    stop,       \* threading.Event shared by the workers of one download
    error,      \* threading.Event shared by the workers of one download
    w,          \* Multidown objects, one per segment id
    sw,         \* the Simpledown object
    ret,        \* <<[simple, id, how]>> in the state in which download() has just
                \* returned to that worker, else <<>>; how: "skip" (not called),
                \* "end" (stream ended), "flag" (break on a flag), "raise"
    phase,      \* "idle", "multi", "merge", "simple"
    mi,         \* loop variable i of combine_files
    merged,     \* "none", "ok" (combine_files returned), or how it raised:
                \* "open" (destination), "missing" (segment file), "copy" (I/O)
    runs        \* downloads started so far

planVars == <<manifest, progress, call, table, raised>>
diskVars == <<files, dest>>
flagVars == <<stop, error>>
envVars  == <<rsize, rangeOK>>
vars == <<manifest, progress, call, table, raised, rsize, rangeOK, files, dest,
          stop, error, w, sw, ret, phase, mi, merged, runs>>

\* ------------------------------------------------------------ pure helpers

\* to_mb(size) < mb. size / 1048576 is exact in a double (division by a power
\* of two), so the comparison is the integer one.
to_mb_below(size, mb) == size < mb * MEGABYTE

\* Arguments <<size, segments, k>> within the input sets of this module at
\* which the double product (size / segments) * k lies just below the integer
\* size * k / segments, so that int() truncates to one less than the exact
\* quotient (IEEE-754 binary64, as evaluated by CPython).
FloatRoundsBelow == { <<58720262, 7, 7>> }

\* int(partition_size * k) with partition_size = size / segments (line 69)
IntOfProduct(size, segments, k) ==
    ((size * k) \div segments)
        - (IF <<size, segments, k>> \in FloatRoundsBelow THEN 1 ELSE 0)

ClampedSegments_NoClamp(segments, size) == segments

\* line 49
ClampedSegments(segments, size) ==
    IF segments > ClampSegments /\ to_mb_below(size, ClampMegabytes)
    THEN ClampSegments ELSE segments

Adopts_NoEtagTest(prog, url, etag) ==
    /\ prog # <<>>
    /\ prog[1].url = url
    /\ prog[1].etag = etag

\* line 54: the manifest read at line 53 is adopted
Adopts(prog, url, etag) ==
    /\ prog # <<>>
    /\ etag # NoEtag
    /\ prog[1].url = url
    /\ prog[1].etag = etag

EffectiveSegments_NoAdopt(prog, url, segments, size, etag) ==
    ClampedSegments(segments, size)

\* lines 49-57: the segment count the table is built with
EffectiveSegments(prog, url, segments, size, etag) ==
    IF Adopts(prog, url, etag)
    THEN prog[1].segments
    ELSE ClampedSegments(segments, size)

SegmentEntry_NoDecrement(size, segments, segment) ==
    LET start == IntOfProduct(size, segments, segment)
        end0  == IntOfProduct(size, segments, segment + 1)
    IN  [ start |-> start, end |-> end0, segment_size |-> end0 - start ]

\* lines 71-83: one table entry
SegmentEntry(size, segments, segment) ==
    LET start == IntOfProduct(size, segments, segment)
        end0  == IntOfProduct(size, segments, segment + 1)
    IN  [ start        |-> start,
          end          |-> IF segment # segments - 1 THEN end0 - 1 ELSE end0,
          segment_size |-> end0 - start ]

\* lines 66-85: the returned dic (segments >= 1, or < 0 where the loop is empty)
SegmentTable(url, segments, size) ==
    [ url      |-> url,
      segments |-> segments,
      seg      |-> [ i \in 0..(segments - 1) |-> SegmentEntry(size, segments, i) ] ]

\* ---------------------------------------------------------------- planner

\* create_segment_table(url, filepath, segments, size, etag), lines 43-85.
\* The manifest is written (line 59) before size / segments is evaluated
\* (line 69), which raises ZeroDivisionError when the count is 0.
create_segment_table(url, segments, size, etag) ==
    LET eff == EffectiveSegments(manifest, url, segments, size, etag)
    IN  /\ progress' = manifest
        /\ call' = << [url |-> url, segments |-> segments, size |-> size, etag |-> etag] >>
        /\ manifest' = << [url |-> url, etag |-> etag, segments |-> eff] >>
        /\ IF eff = 0
           THEN raised' = TRUE  /\ table' = <<>>
           ELSE raised' = FALSE /\ table' = << SegmentTable(url, eff, size) >>

\* ------------------------------------------------------- files and server

Ids == 0..(MaxSeg - 1)
NoFile == [ex |-> FALSE, data |-> <<>>]
Min(a, b) == IF a < b THEN a ELSE b

\* Byte at offset `off` of the resource at `url`, and its bytes first..last
Byte(url, off) == <<url, off>>
Bytes(url, first, last) == [ k \in 1..(last - first + 1) |-> Byte(url, first + k - 1) ]
Resource(url) == Bytes(url, 0, rsize - 1)

\* The body the server sends for "range: bytes=first-last", as the offsets
\* pos..lim-1 of the resource it will deliver.
RangeResponse(first, last) ==
    IF rangeOK
    THEN [pos |-> first, lim |-> IF first > rsize - 1 THEN first ELSE Min(last, rsize - 1) + 1]
    ELSE [pos |-> 0, lim |-> rsize]

\* Basicdown.__init__, lines 113-118 (pos, lim: the response being read)
NewDown == [pc |-> "init", curr |-> 0, completed |-> 0, pos |-> 0, lim |-> 0]
NoDown == [NewDown EXCEPT !.pc = "none"]
\* Simpledown.__init__, lines 144-155
NewSimple(url) == [pc |-> "init", curr |-> 0, completed |-> 0, pos |-> 0, lim |-> 0, url |-> url]
NoSimple == [NewSimple("") EXCEPT !.pc = "none"]

\* ------------------------------------------------------ Basicdown.download
\* The steps of download() as sets of outcomes [f, r, err, how]: the file and
\* the worker after the step, whether the error event was set, and how
\* download() returned in this step ("none" while it has not).

\* leaving the with blocks closes the response
Left(r) == [r EXCEPT !.pc = "exit", !.pos = 0, !.lim = 0]
\* except Exception (lines 133-136): the error event is set, download returns
Caught(f, r) == [f |-> f, r |-> Left(r), err |-> TRUE, how |-> "raise"]
Ends(f, r, how) == [f |-> f, r |-> Left(r), err |-> FALSE, how |-> how]
Goes(f, r) == [f |-> f, r |-> r, err |-> FALSE, how |-> "none"]

\* open(path, mode), line 125
Opened(f, mode) ==
    IF mode = "wb" \/ ~f.ex THEN [ex |-> TRUE, data |-> <<>>] ELSE f

\* lines 125-126: open the file, send the request; either may raise
DownloadBegin(f, r, mode, resp) ==
    { Caught(f, r),
      Caught(Opened(f, mode), r),
      Goes(Opened(f, mode), [r EXCEPT !.pc = "loop", !.pos = resp.pos, !.lim = resp.lim]) }

\* One iteration of the for loop up to the flag test (lines 127-130), or the
\* end of the loop. The stream yields a chunk of 1..ChunkMax bytes, ends (at
\* its natural end, or early when the server closes the connection without an
\* error), or raises; f.write raises after writing k bytes of the chunk;
\* leaving the with blocks (closing) raises.
DownloadChunk(f, r, url) ==
    LET most == Min(ChunkMax, r.lim - r.pos)
    IN  { Goes([f EXCEPT !.data = @ \o Bytes(url, r.pos, r.pos + n - 1)],
               [r EXCEPT !.pc = "check", !.curr = @ + n, !.pos = @ + n]) : n \in 1..most }
        \cup
        { Caught([f EXCEPT !.data = @ \o Bytes(url, r.pos, r.pos + k - 1)], r) :
              k \in 0..(most - 1) }
        \cup
        { Caught(f, r), Ends(f, r, "end") }

DownloadCheck_NoFlagTest(f, r, flagged) == { Goes(f, [r EXCEPT !.pc = "loop"]) }

\* lines 131-132: the flag test after a chunk; a break leaves the with blocks
DownloadCheck(f, r, flagged) ==
    IF flagged
    THEN { Ends(f, r, "flag"), Caught(f, r) }
    ELSE { Goes(f, [r EXCEPT !.pc = "loop"]) }

\* ---------------------------------------------------------- Multidown.worker

\* lines 187-192: the segment file and curr after the inspection of the file
\* found on disk; a file longer than the segment is unlinked
Inspect_NoResume(f0, size) == [f |-> f0, curr |-> 0]

Inspect(f0, size) ==
    LET stale == f0.ex /\ Len(f0.data) > size
    IN  [ f    |-> IF stale THEN NoFile ELSE f0,
          curr |-> IF f0.ex /\ ~stale THEN Len(f0.data) ELSE 0 ]

MultiEnd_AtLeast(r, size) ==
    IF r.pc = "exit"
    THEN [r EXCEPT !.pc = "done", !.completed = IF r.curr >= size THEN 1 ELSE @]
    ELSE r

\* lines 200-201, once download() has returned
MultiEnd(r, size) ==
    IF r.pc = "exit"
    THEN [r EXCEPT !.pc = "done", !.completed = IF r.curr = size THEN 1 ELSE @]
    ELSE r

Returned(simple, i, how) ==
    IF how = "none" THEN <<>> ELSE << [simple |-> simple, id |-> i, how |-> how] >>

Effect(i, res, size) ==
    /\ files' = [files EXCEPT ![i] = res.f]
    /\ w' = [w EXCEPT ![i] = MultiEnd(res.r, size)]
    /\ error' = (error \/ res.err)
    /\ ret' = Returned(FALSE, i, res.how)

\* lines 181-198 up to the request: inspect the segment file, then either
\* skip the download (curr >= size) or open the file and send the request
W_Begin(i) ==
    /\ phase = "multi"
    /\ w[i].pc = "init"
    /\ LET e    == table[1].seg[i]
           seen == Inspect(files[i], e.segment_size)
           r    == [w[i] EXCEPT !.curr = seen.curr]
       IN  IF seen.curr < e.segment_size
           THEN \E res \in DownloadBegin(seen.f, r, "ab",
                                         RangeResponse(e.start + seen.curr, e.end)) :
                    Effect(i, res, e.segment_size)
           ELSE Effect(i, Ends(seen.f, r, "skip"), e.segment_size)
    /\ UNCHANGED <<planVars, envVars, dest, stop, sw, phase, mi, merged, runs>>

W_Chunk(i) ==
    /\ phase = "multi"
    /\ w[i].pc = "loop"
    /\ \E res \in DownloadChunk(files[i], w[i], table[1].url) :
           Effect(i, res, table[1].seg[i].segment_size)
    /\ UNCHANGED <<planVars, envVars, dest, stop, sw, phase, mi, merged, runs>>

W_Check(i) ==
    /\ phase = "multi"
    /\ w[i].pc = "check"
    /\ \E res \in DownloadCheck(files[i], w[i], stop \/ error) :
           Effect(i, res, table[1].seg[i].segment_size)
    /\ UNCHANGED <<planVars, envVars, dest, stop, sw, phase, mi, merged, runs>>

\* --------------------------------------------------------- Simpledown.worker

\* line 159, once download() has returned
SimpleEnd(r) ==
    IF r.pc = "exit" THEN [r EXCEPT !.pc = "done", !.completed = 1] ELSE r

SEffect(res) ==
    /\ dest' = res.f
    /\ sw' = SimpleEnd(res.r)
    /\ error' = (error \/ res.err)
    /\ ret' = Returned(TRUE, 0, res.how)

S_Begin ==
    /\ phase = "simple"
    /\ sw.pc = "init"
    /\ \E res \in DownloadBegin(dest, sw, "wb", [pos |-> 0, lim |-> rsize]) : SEffect(res)
    /\ UNCHANGED <<planVars, envVars, files, stop, w, phase, mi, merged, runs>>

S_Chunk ==
    /\ phase = "simple"
    /\ sw.pc = "loop"
    /\ \E res \in DownloadChunk(dest, sw, sw.url) : SEffect(res)
    /\ UNCHANGED <<planVars, envVars, files, stop, w, phase, mi, merged, runs>>

S_Check ==
    /\ phase = "simple"
    /\ sw.pc = "check"
    /\ \E res \in DownloadCheck(dest, sw, stop \/ error) : SEffect(res)
    /\ UNCHANGED <<planVars, envVars, files, stop, w, phase, mi, merged, runs>>

\* -------------------------------------------------------------- combine_files

Segments == IF table = <<>> THEN 0 ELSE table[1].segments
Running == { i \in Ids : w[i].pc # "none" }
AllDone == \A i \in Running : w[i].pc = "done"
AllCompleted == \A i \in Running : w[i].completed = 1

Copied_Truncating(d, f) == [d EXCEPT !.data = f.data]

\* lines 95-101: the destination once the whole of segment file f is copied
Copied(d, f) == [d EXCEPT !.data = @ \o f.data]

\* line 92, called by the coordinator once every worker has completed with
\* no flag set: open(filepath, "wb") truncates the destination, or raises
combine_open ==
    /\ phase = "multi"
    /\ AllDone /\ AllCompleted /\ ~stop /\ ~error
    /\ \/ /\ dest' = [ex |-> TRUE, data |-> <<>>]
          /\ phase' = "merge" /\ mi' = 0 /\ merged' = merged
       \/ /\ dest' = dest
          /\ phase' = "idle" /\ mi' = 0 /\ merged' = "open"
    /\ ret' = <<>>
    /\ UNCHANGED <<planVars, envVars, files, flagVars, w, sw, runs>>

\* lines 93-102, one iteration: copy segment file i and unlink it; the copy
\* (read, write, unlink) raises after k bytes, opening the file raises when it
\* does not exist
combine_copy ==
    /\ phase = "merge"
    /\ mi < Segments
    /\ LET f == files[mi]
       IN  \/ /\ f.ex
              /\ dest' = Copied(dest, f)
              /\ files' = [files EXCEPT ![mi] = NoFile]
              /\ mi' = mi + 1
              /\ UNCHANGED <<phase, merged>>
           \/ /\ f.ex
              /\ \E k \in 0..Len(f.data) :
                     dest' = [dest EXCEPT !.data = @ \o SubSeq(f.data, 1, k)]
              /\ phase' = "idle" /\ merged' = "copy"
              /\ UNCHANGED <<files, mi>>
           \/ /\ ~f.ex
              /\ phase' = "idle" /\ merged' = "missing"
              /\ UNCHANGED <<files, dest, mi>>
    /\ ret' = <<>>
    /\ UNCHANGED <<planVars, envVars, flagVars, w, sw, runs>>

\* lines 104-105: the loop is over, the destination is closed, the manifest is
\* unlinked
combine_finish ==
    /\ phase = "merge"
    /\ mi >= Segments
    /\ manifest' = <<>>
    /\ phase' = "idle"
    /\ merged' = "ok"
    /\ ret' = <<>>
    /\ UNCHANGED <<progress, call, table, raised, envVars, diskVars, flagVars, w, sw, mi, runs>>

\* ---------------------------------------------------------------- coordinator

\* A segmented download starts: fresh events, the plan, one Multidown per
\* table entry.
StartSegmented ==
    /\ phase = "idle"
    /\ runs < MaxRuns
    /\ \E src \in Sources, segments \in DlSegs :
           create_segment_table(src.url, segments, rsize, src.etag)
    /\ w' = [ i \in Ids |-> IF table' # <<>> /\ i < table'[1].segments THEN NewDown ELSE NoDown ]
    /\ sw' = NoSimple
    /\ stop' = FALSE /\ error' = FALSE
    /\ phase' = "multi"
    /\ merged' = "none"
    /\ mi' = 0
    /\ runs' = runs + 1
    /\ ret' = <<>>
    /\ UNCHANGED <<envVars, diskVars>>

\* A single-stream download starts: fresh events, one Simpledown, no table.
StartSimple ==
    /\ phase = "idle"
    /\ runs < MaxRuns
    /\ \E url \in Urls : sw' = NewSimple(url)
    /\ w' = [ i \in Ids |-> NoDown ]
    /\ stop' = FALSE /\ error' = FALSE
    /\ phase' = "simple"
    /\ merged' = "none"
    /\ mi' = 0
    /\ runs' = runs + 1
    /\ ret' = <<>>
    /\ progress' = <<>> /\ call' = <<>> /\ table' = <<>> /\ raised' = FALSE
    /\ UNCHANGED <<manifest, envVars, diskVars>>

\* The caller cancels the download.
SetStop ==
    /\ phase \in {"multi", "simple"}
    /\ ~stop
    /\ stop' = TRUE
    /\ ret' = <<>>
    /\ UNCHANGED <<planVars, envVars, diskVars, error, w, sw, phase, mi, merged, runs>>

\* Every worker has returned and the merge is not invoked: the download ends
\* with the files left in place.
EndRun ==
    /\ \/ phase = "multi" /\ AllDone /\ ~(AllCompleted /\ ~stop /\ ~error)
       \/ phase = "simple" /\ sw.pc = "done"
    /\ phase' = "idle"
    /\ ret' = <<>>
    /\ UNCHANGED <<planVars, envVars, diskVars, flagVars, w, sw, mi, merged, runs>>

\* ------------------------------------------------------------ specifications

PlanInit ==
    /\ manifest = <<>>
    /\ progress = <<>>
    /\ call = <<>>
    /\ table = <<>>
    /\ raised = FALSE

RestInit ==
    /\ files = [ i \in Ids |-> NoFile ]
    /\ dest = NoFile
    /\ stop = FALSE
    /\ error = FALSE
    /\ w = [ i \in Ids |-> NoDown ]
    /\ sw = NoSimple
    /\ ret = <<>>
    /\ phase = "idle"
    /\ mi = 0
    /\ merged = "none"
    /\ runs = 0

\* The server honours the range header.
Init ==
    /\ PlanInit
    /\ RestInit
    /\ rsize \in 0..MaxSize
    /\ rangeOK = TRUE

W_Begins == \E i \in Ids : W_Begin(i)
W_Chunks == \E i \in Ids : W_Chunk(i)
W_Checks == \E i \in Ids : W_Check(i)

\* Downloads, segmented or single-stream, one after the other on the same
\* destination path.
Next ==
    \/ StartSegmented
    \/ StartSimple
    \/ SetStop
    \/ W_Begins
    \/ W_Chunks
    \/ W_Checks
    \/ S_Begin
    \/ S_Chunk
    \/ S_Check
    \/ combine_open
    \/ combine_copy
    \/ combine_finish
    \/ EndRun

Spec == Init /\ [][Next]_vars

\* The same downloads against a server that ignores the range header and
\* sends the whole resource.
InitIgnored ==
    /\ PlanInit
    /\ RestInit
    /\ rsize \in 0..MaxSize
    /\ rangeOK = FALSE

SpecIgnored == InitIgnored /\ [][Next]_vars

\* Segmented downloads only.
NextSegmented ==
    \/ StartSegmented
    \/ SetStop
    \/ W_Begins
    \/ W_Chunks
    \/ W_Checks
    \/ combine_open
    \/ combine_copy
    \/ combine_finish
    \/ EndRun

SpecSegmented == Init /\ [][NextSegmented]_vars

\* One segmented download on a clean destination path (the last download the
\* bound admits) against a server that ignores the range header.
InitIgnoredOnce ==
    /\ PlanInit
    /\ files = [ i \in Ids |-> NoFile ]
    /\ dest = NoFile
    /\ stop = FALSE
    /\ error = FALSE
    /\ w = [ i \in Ids |-> NoDown ]
    /\ sw = NoSimple
    /\ ret = <<>>
    /\ phase = "idle"
    /\ mi = 0
    /\ merged = "none"
    /\ runs = MaxRuns - 1
    /\ rsize \in 0..MaxSize
    /\ rangeOK = FALSE

SpecIgnoredOnce == InitIgnoredOnce /\ [][NextSegmented]_vars

\* The planner alone, called repeatedly on the same destination path.
InitPlan ==
    /\ PlanInit
    /\ RestInit
    /\ rsize = 0
    /\ rangeOK = TRUE

PlanOnly ==
    /\ \E url \in Urls, etag \in Etags, size \in PlanSizes, segments \in PlanSegs :
           create_segment_table(url, segments, size, etag)
    /\ UNCHANGED <<envVars, diskVars, flagVars, w, sw, ret, phase, mi, merged, runs>>

NextPlan == PlanOnly

SpecPlan == InitPlan /\ [][NextPlan]_vars

\* ------------------------------------------------------------------ claims

\* The manifest read by the last call matches the call's url and etag, and an
\* etag was supplied.
ManifestMatched ==
    /\ progress # <<>>
    /\ call[1].etag # NoEtag
    /\ progress[1].url = call[1].url
    /\ progress[1].etag = call[1].etag

\* C1: for size >= 1 and a segment count >= 1 the inclusive ranges of the
\* returned table partition [0, size-1]: segment 0 starts at 0, each later
\* segment starts at the previous end + 1, the last end is size - 1.
C1_RangesPartition ==
    (call # <<>> /\ table # <<>> /\ call[1].size >= 1 /\ table[1].segments >= 1) =>
        LET t == table[1]
            n == t.segments
        IN  /\ t.seg[0].start = 0
            /\ \A i \in 1..(n - 1) : t.seg[i].start = t.seg[i - 1].end + 1
            /\ t.seg[n - 1].end = call[1].size - 1

\* C2: once every segment worker has completed and combine_files has returned,
\* the destination holds exactly the bytes of the remote resource, whatever
\* earlier runs left on the destination path (range-honouring server).
C2_DestIdentical ==
    (rangeOK /\ merged = "ok" /\ table # <<>>) => (dest.ex /\ dest.data = Resource(call[1].url))

\* C3: a call that finds a manifest with its own url and (supplied) etag builds
\* its table with the manifest's segment count, whatever count was requested;
\* with the size unchanged too, the table equals that of the previous call.
C3_AdoptsManifestCount ==
    [][ ( /\ call' # <<>>
          /\ progress' # <<>>
          /\ call'[1].etag # NoEtag
          /\ progress'[1].url = call'[1].url
          /\ progress'[1].etag = call'[1].etag )
        => /\ manifest' # <<>>
           /\ manifest'[1].segments = progress'[1].segments
           /\ table' # <<>> => table'[1].segments = progress'[1].segments
           /\ (call # <<>> /\ table # <<>> /\ call[1].size = call'[1].size)
                  => table' = table
      ]_vars

C3_Witness ==
    /\ call # <<>>
    /\ ManifestMatched
    /\ table # <<>>
    /\ call[1].segments >= 1
    /\ call[1].segments <= ClampSegments
    /\ table[1].segments # call[1].segments

\* C4 (as claimed): a call without etag that finds a manifest for the same url
\* returns a table with the manifest's segment count.
C4_NoEtagTrustsManifest ==
    ( /\ call # <<>>
      /\ call[1].etag = NoEtag
      /\ progress # <<>>
      /\ progress[1].url = call[1].url
      /\ table # <<>> )
    => table[1].segments = progress[1].segments

\* C4 (amended): a call without etag never adopts the manifest: the count
\* written to the manifest and used for the table is the requested count after
\* the small-file clamp.
C4_NoEtagUsesRequestedCount ==
    (call # <<>> /\ call[1].etag = NoEtag) =>
        LET want == IF call[1].segments > 5 /\ call[1].size < 50 * MEGABYTE
                    THEN 5 ELSE call[1].segments
        IN  /\ manifest # <<>>
            /\ manifest[1].segments = want
            /\ table # <<>> => table[1].segments = want
            /\ raised <=> want = 0

C4_Witness ==
    /\ call # <<>>
    /\ call[1].etag = NoEtag
    /\ progress # <<>>
    /\ progress[1].url = call[1].url
    /\ table # <<>>
    /\ table[1].segments # progress[1].segments

\* C5: a Simpledown worker has completed = 1 only if its response stream was
\* read to the end, not when the loop was left on a flag or by an exception.
C5_CompletedOnlyAtStreamEnd ==
    (ret # <<>> /\ ret[1].simple /\ sw.completed = 1) => ret[1].how = "end"

\* C6: when combine_files fails while copying a segment, the manifest and
\* every segment file 0..N-1 are still present and complete.
C6_FailedMergeKeepsSegments ==
    merged = "copy" =>
        /\ manifest # <<>>
        /\ \A i \in 0..(Segments - 1) :
               files[i].ex /\ Len(files[i].data) = table[1].seg[i].segment_size

\* C7: a segment worker whose transfer raised has set the error flag and
\* finishes with completed = 0.
C7_RaiseLeavesIncomplete ==
    (ret # <<>> /\ ~ret[1].simple /\ ret[1].how = "raise") =>
        /\ error
        /\ w[ret[1].id].pc = "done"
        /\ w[ret[1].id].completed = 0

\* C8: with the stop or the error flag set, a worker (segment or
\* single-stream) writes at most one further chunk: bytes are written only by
\* a loop iteration, which goes on to the flag test or leaves download(), and
\* the flag test never returns to the loop.
C8_OneChunkAfterFlag ==
    [][ (stop \/ error) =>
          /\ \A i \in Ids :
                /\ Len(files'[i].data) > Len(files[i].data) =>
                       (w[i].pc = "loop" /\ w'[i].pc \in {"check", "done"})
                /\ w[i].pc = "check" => w'[i].pc \in {"check", "done"}
          /\ sw.pc \in {"init", "loop", "check"} =>
                /\ Len(dest'.data) > Len(dest.data) =>
                       (sw.pc = "loop" /\ sw'.pc \in {"check", "done"})
                /\ sw.pc = "check" => sw'.pc \in {"check", "done"}
      ]_vars

C8_Witness ==
    /\ stop
    /\ \E i, j \in Ids :
          /\ i # j
          /\ w[i].pc = "check" /\ w[i].curr > 0
          /\ w[j].pc = "loop"

\* C9: a call with resource size 0 or a segment count below 1 fails with an
\* error and returns no table.
C9_InvalidPlanRaises ==
    (call # <<>> /\ (call[1].size = 0 \/ call[1].segments < 1)) =>
        (raised /\ table = <<>>)

\* C10 (as claimed): more than 5 requested segments for a resource below 50 MB
\* give a table of 5 segments.
C10_SmallFileClamp ==
    (call # <<>> /\ call[1].segments > 5 /\ call[1].size < 50 * MEGABYTE) =>
        (table # <<>> /\ table[1].segments = 5)

\* C10 (amended): more than 5 requested segments for a resource below 50 MB
\* give a table of 5 segments unless a manifest with the call's url and
\* supplied etag is adopted; then the manifest's count is used instead.
C10_SmallFileClampUnlessAdopted ==
    (call # <<>> /\ call[1].segments > 5 /\ call[1].size < 50 * MEGABYTE) =>
        /\ manifest # <<>>
        /\ IF ManifestMatched
           THEN manifest[1].segments = progress[1].segments
           ELSE table # <<>> /\ table[1].segments = 5 /\ manifest[1].segments = 5

C10_Witness ==
    /\ call # <<>>
    /\ call[1].segments > 5
    /\ call[1].size < 50 * MEGABYTE
    /\ progress # <<>>
    /\ ~ManifestMatched
    /\ table # <<>>
    /\ table[1].segments = 5

C12_CompletedIffExactSize ==
    \A i \in Ids :
        (table # <<>> /\ w[i].pc = "done") =>
            /\ w[i].completed = 1 <=> w[i].curr = table[1].seg[i].segment_size
            /\ w[i].curr # table[1].seg[i].segment_size => w[i].completed = 0

C12_Witness ==
    /\ table # <<>>
    /\ \E i, j \in Ids :
          /\ w[i].pc = "done"
          /\ w[i].curr > table[1].seg[i].segment_size
          /\ w[j].pc = "done"
          /\ w[j].curr < table[1].seg[j].segment_size

\* The contents of segment files a..b of fs, in ascending index order
RECURSIVE ConcatFiles(_, _, _)
ConcatFiles(fs, a, b) ==
    IF a > b THEN <<>> ELSE fs[a].data \o ConcatFiles(fs, a + 1, b)

\* The destination followed by the segment files combine_files has yet to copy
MergeRest == dest.data \o ConcatFiles(files, mi, Segments - 1)

\* C13: combine_files starts from an empty destination with the segment files
\* as the workers left them; each of its steps keeps "destination followed by
\* the files not yet copied, in ascending index order" the same; it returns
\* only when no file is left to copy. So on return the destination is the
\* concatenation of segment files 0..N-1 in index order.
C13_MergeConcatenatesInOrder ==
    [][ /\ (phase = "multi" /\ phase' = "merge") =>
               /\ files' = files
               /\ MergeRest' = ConcatFiles(files, 0, Segments - 1)
        /\ (phase = "merge" /\ phase' = "merge") => MergeRest' = MergeRest
        /\ (phase = "merge" /\ merged' = "ok") =>
               /\ mi >= Segments
               /\ dest'.data = MergeRest
      ]_vars

C13_Witness ==
    /\ merged = "ok"
    /\ Segments >= 2
    /\ Len(dest.data) >= 2
    /\ dest.data[1] # dest.data[2]

\* C14: after a successful merge the manifest and every segment file
\* <filepath>.<i>.bin are gone and the destination is as long as the resource.
C14_MergeLeavesNothing ==
    merged = "ok" =>
        /\ manifest = <<>>
        /\ \A i \in Ids : ~files[i].ex
        /\ Len(dest.data) = rsize

\* C15: against a server that ignores the range header, no segment worker
\* finishes completed on a file holding bytes from outside its range: content
\* sent from byte 0 is never accepted as the segment, also when the transfer
\* is cut short by a flag.
C15_IgnoredRangeNeverAccepted ==
    \A i \in Ids :
        (~rangeOK /\ table # <<>> /\ w[i].pc = "done" /\ w[i].completed = 1) =>
            \A k \in 1..Len(files[i].data) :
                files[i].data[k][2] = table[1].seg[i].start + k - 1

\* C16: a worker that finds its file longer than segment_size deletes it and
\* sends the request for bytes=start-end; one that finds c < segment_size
\* bytes keeps the file and sends the request for bytes=(start+c)-end. (The
\* request is not skipped; download() may still fail with an exception.)
C16_StaleRestartsPartialResumes ==
    [][ \A i \in Ids :
          (phase = "multi" /\ w[i].pc = "init" /\ w'[i].pc # "init" /\ files[i].ex) =>
              LET e == table[1].seg[i]
                  c == Len(files[i].data)
              IN  /\ c > e.segment_size =>
                         /\ files'[i].data = <<>>
                         /\ ret' # <<>> => ret'[1].how = "raise"
                         /\ w'[i].pc = "loop" => w'[i].pos = e.start
                  /\ c < e.segment_size =>
                         /\ files'[i] = files[i]
                         /\ ret' # <<>> => ret'[1].how = "raise"
                         /\ w'[i].pc = "loop" => w'[i].pos = e.start + c
      ]_vars

\* C17: a worker that finds exactly segment_size bytes in its file, with
\* neither flag set, returns at once with completed = 1: no request is sent,
\* the file and the error flag are untouched.
C17_ExactFileCompletesAtOnce ==
    [][ \A i \in Ids :
          ( /\ phase = "multi" /\ w[i].pc = "init" /\ w'[i].pc # "init"
            /\ ~stop /\ ~error
            /\ files[i].ex
            /\ Len(files[i].data) = table[1].seg[i].segment_size ) =>
              /\ w'[i].pc = "done"
              /\ w'[i].completed = 1
              /\ files'[i] = files[i]
              /\ error' = error
              /\ ret' = << [simple |-> FALSE, id |-> i, how |-> "skip"] >>
      ]_vars

C17_Witness ==
    /\ ret # <<>>
    /\ ~ret[1].simple
    /\ ret[1].how = "skip"
    /\ ~stop /\ ~error
    /\ files[ret[1].id].ex
    /\ Len(files[ret[1].id].data) > 0
    /\ Len(files[ret[1].id].data) = table[1].seg[ret[1].id].segment_size
    /\ w[ret[1].id].completed = 1

\* The sum of segment_size over entries 0..k of table t
RECURSIVE SumSizes(_, _)
SumSizes(t, k) ==
    IF k < 0 THEN 0 ELSE t.seg[k].segment_size + SumSizes(t, k - 1)

\* C18: in every returned table (of at least one segment) segment 0 starts at
\* 0, each next segment starts at the previous start plus the previous
\* segment_size, and the segment sizes sum to the resource size.
C18_SizesContiguousSumToSize ==
    (call # <<>> /\ table # <<>> /\ table[1].segments >= 1) =>
        LET t == table[1]
            n == t.segments
        IN  /\ t.seg[0].start = 0
            /\ \A i \in 0..(n - 2) :
                   t.seg[i + 1].start = t.seg[i].start + t.seg[i].segment_size
            /\ SumSizes(t, n - 1) = call[1].size

\* C19: under a plan that did not adopt the manifest, a segment file whose
\* worker finished completed holds only bytes fetched under that plan: the
\* bytes of the plan's url at the segment's offsets.
C19_NewPlanIgnoresOldFiles ==
    \A i \in Ids :
        ( /\ rangeOK /\ table # <<>> /\ ~ManifestMatched
          /\ w[i].pc = "done" /\ w[i].completed = 1 /\ files[i].ex ) =>
            files[i].data =
                Bytes(table[1].url, table[1].seg[i].start,
                      table[1].seg[i].start + table[1].seg[i].segment_size - 1)

\* C20: when every worker of the table has finished completed, every segment
\* file exists and holds exactly segment_size bytes.
C20_CompletedFilesExist ==
    (phase = "multi" /\ table # <<>> /\ AllDone /\ AllCompleted) =>
        \A i \in 0..(Segments - 1) :
            /\ files[i].ex
            /\ Len(files[i].data) = table[1].seg[i].segment_size

====
